---- MODULE Spec2Model ----
(***************************************************************************)
(* Model of backend/utils/time_series.py: the TimeSeriesAnalyzer class.    *)
(*                                                                         *)
(* The analyzer is a collection of functions over a list of numbers.  A    *)
(* number is modelled exactly: a rational n/d in lowest terms (d > 0), or  *)
(* the float NaN (d = 0).  numpy / pandas arithmetic is thus modelled      *)
(* without rounding.  The statsmodels fits and forecasts are outside the   *)
(* repository: their outcomes (a fit raises or converges with some AIC, a  *)
(* forecast raises or returns values) are chosen nondeterministically.     *)
(***************************************************************************)
EXTENDS Integers, Sequences, FiniteSets, TLC

VARIABLES pc, call, idx, best, outcome, self, other, fits

vars == <<pc, call, idx, best, outcome, self, other, fits>>

----------------------------------------------------------------------------
(* Exact arithmetic on Python / numpy floats                               *)

Abs(i) == IF i < 0 THEN 0 - i ELSE i

RECURSIVE Gcd(_, _)
Gcd(a, b) == IF b = 0 THEN a ELSE Gcd(b, a % b)

\* n/d in lowest terms, d > 0
Rat(n, d) == LET g == Gcd(Abs(n), d) IN [n |-> n \div g, d |-> d \div g]

Whole(i) == [n |-> i, d |-> 1]

NaN == [n |-> 0, d |-> 0]

IsNaN(x) == x.d = 0 /\ x.n = 0

\* float('inf')
PosInf == [n |-> 1, d |-> 0]

Zero == Whole(0)

Neg(x) == [n |-> 0 - x.n, d |-> x.d]

Add(x, y) ==
    IF IsNaN(x) \/ IsNaN(y) THEN NaN
    ELSE LET g == Gcd(x.d, y.d)
         IN  Rat(x.n * (y.d \div g) + y.n * (x.d \div g), (x.d \div g) * y.d)

Sub(x, y) == Add(x, Neg(y))

Mul(x, y) ==
    IF IsNaN(x) \/ IsNaN(y) THEN NaN
    ELSE LET g1 == Gcd(Abs(x.n), y.d)
             g2 == Gcd(Abs(y.n), x.d)
         IN  Rat((x.n \div g1) * (y.n \div g2), (x.d \div g2) * (y.d \div g1))

\* x / y for y # 0 (a zero divisor raises ZeroDivisionError at the caller)
Div(x, y) ==
    IF IsNaN(x) \/ IsNaN(y) THEN NaN
    ELSE Mul(x, [n |-> IF y.n < 0 THEN 0 - y.d ELSE y.d, d |-> Abs(y.n)])

\* Python comparisons: every comparison with NaN is False
Lt(x, y) == ~IsNaN(x) /\ ~IsNaN(y) /\ Sub(x, y).n < 0

Gt(x, y) == Lt(y, x)

Ge(x, y) == ~IsNaN(x) /\ ~IsNaN(y) /\ Sub(x, y).n >= 0

AbsR(x) == [n |-> Abs(x.n), d |-> x.d]

\* the sum of a sequence, by halves
SumSeq(s) ==
    LET RECURSIVE SumRange(_, _)
        SumRange(lo, hi) ==
            IF lo > hi THEN Zero
            ELSE IF lo = hi THEN s[lo]
            ELSE Add(SumRange(lo, (lo + hi) \div 2),
                     SumRange((lo + hi) \div 2 + 1, hi))
    IN  SumRange(1, Len(s))

HasNaN(s) == \E i \in 1..Len(s) : IsNaN(s[i])

Mean(s) == Div(SumSeq(s), Whole(Len(s)))

Sq(x) == Mul(x, x)

\* Python's max(0, x): 0 is kept unless x > 0, so max(0, nan) is 0
Max0(x) == IF Gt(x, Zero) THEN x ELSE Zero

Rep(v, n) == [i \in 1..n |-> v]

\* dropna()
DropNaN(s) ==
    LET RECURSIVE DropRange(_, _)
        DropRange(lo, hi) ==
            IF lo > hi THEN <<>>
            ELSE IF lo = hi THEN (IF IsNaN(s[lo]) THEN <<>> ELSE <<s[lo]>>)
            ELSE DropRange(lo, (lo + hi) \div 2)
                     \o DropRange((lo + hi) \div 2 + 1, hi)
    IN  DropRange(1, Len(s))

\* np.std(x) ** 2 on a non-empty sequence (ddof = 0)
PopVar(s) == Sub(Mean([i \in 1..Len(s) |-> Sq(s[i])]), Sq(Mean(s)))

MinOf(a, b) == IF a < b THEN a ELSE b

----------------------------------------------------------------------------
(* What a call yields: a returned value, or an exception leaving the call  *)

Return(v) == [raised |-> FALSE, val |-> v]

Raise(msg) == [raised |-> TRUE, val |-> msg]

\* `'error' in result` for a returned dict
HasErrorKey(v) == "error" \in DOMAIN v

----------------------------------------------------------------------------
(* np.polyfit(np.arange(n), y, 1): the least-squares line over x = 0..n-1. *)
(* NaN entries propagate into both coefficients when the solver returns.   *)

\* variant: the line through the first and the last point
polyfit_endpoints(y) ==
    [slope     |-> Div(Sub(y[Len(y)], y[1]), Whole(Len(y) - 1)),
     intercept |-> y[1]]

polyfit(y) ==
    LET n   == Len(y)
        Sx  == Whole((n * (n - 1)) \div 2)
        Sxx == SumSeq([i \in 1..n |-> Whole((i - 1) * (i - 1))])
        Sy  == SumSeq(y)
        Sxy == SumSeq([i \in 1..n |-> Mul(Whole(i - 1), y[i])])
        D   == Sub(Mul(Whole(n), Sxx), Mul(Sx, Sx))
    IN  [slope     |-> Div(Sub(Mul(Whole(n), Sxy), Mul(Sx, Sy)), D),
         intercept |-> Div(Sub(Mul(Sxx, Sy), Mul(Sx, Sxy)), D)]

\* On data holding NaN the LAPACK solver either raises LinAlgError or
\* returns NaN coefficients, depending on the build.
NanFits == {"raise", "nan"}

polyfit_raises(y, nanfit) == HasNaN(y) /\ nanfit = "raise"

\* the solver's outcomes on y
NanFitsOn(y) == IF HasNaN(y) THEN NanFits ELSE {"raise"}

StableSlope == Rat(1, 100)

----------------------------------------------------------------------------
(* analyze_trend                                                           *)

\* variant: no 'stable' branch, the sign of the slope alone decides
trend_direction_no_stable(slope) ==
    IF Gt(slope, Zero) THEN "increasing" ELSE "decreasing"

\* variant: abs(slope) <= 0.01 counts as stable
trend_direction_inclusive(slope) ==
    IF ~Gt(AbsR(slope), StableSlope) THEN "stable"
    ELSE IF Gt(slope, Zero) THEN "increasing"
    ELSE "decreasing"

\* if abs(slope) < 0.01: 'stable' elif slope > 0: 'increasing' else: 'decreasing'
trend_direction(slope) ==
    IF Lt(AbsR(slope), StableSlope) THEN "stable"
    ELSE IF Gt(slope, Zero) THEN "increasing"
    ELSE "decreasing"

\* the body of analyze_trend for a series of two or more values
analyze_trend_fit(data, nanfit) ==
    IF polyfit_raises(data, nanfit)
    THEN Raise("SVD did not converge in Linear Least Squares")
    ELSE
      LET n      == Len(data)
          fit    == polyfit(data)
          slope  == fit.slope
          y_pred == [i \in 1..n |-> Add(Mul(slope, Whole(i - 1)), fit.intercept)]
          ss_tot == SumSeq([i \in 1..n |-> Sq(Sub(data[i], Mean(data)))])
          ss_res == SumSeq([i \in 1..n |-> Sq(Sub(data[i], y_pred[i]))])
          r_squared == IF Gt(ss_tot, Zero)
                       THEN Sub(Whole(1), Div(ss_res, ss_tot))
                       ELSE Zero
      IN  IF data[1] = Zero
          THEN Raise("division by zero")
          ELSE Return([slope             |-> slope,
                       intercept         |-> fit.intercept,
                       r_squared         |-> r_squared,
                       direction         |-> trend_direction(slope),
                       percentage_change |->
                           Mul(Div(Sub(data[n], data[1]), data[1]), Whole(100)),
                       start_value       |-> data[1],
                       end_value         |-> data[n],
                       data_points       |-> n])

\* variant: a series shorter than 2 yields a neutral trend instead of an error
analyze_trend_try_neutral(data, nanfit) ==
    IF Len(data) < 2
    THEN Return([slope |-> Zero, intercept |-> Zero, r_squared |-> Zero,
                 direction |-> "stable", percentage_change |-> Zero,
                 start_value |-> Zero, end_value |-> Zero,
                 data_points |-> Len(data)])
    ELSE analyze_trend_fit(data, nanfit)

analyze_trend_try(data, nanfit) ==
    IF Len(data) < 2
    THEN Return([error |-> "Insufficient data for trend analysis"])
    ELSE analyze_trend_fit(data, nanfit)

\* variant: no except clause, the exception leaves the call
ErrorDict_reraise(r) == r

\* except Exception as e: return {'error': str(e)}
ErrorDict(r) == IF r.raised THEN Return([error |-> r.val]) ELSE r

analyze_trend(data, nanfit) == ErrorDict(analyze_trend_try(data, nanfit))

----------------------------------------------------------------------------
(* calculate_trend                                                         *)

calculate_trend_try(values, nanfit) ==
    IF Len(values) < 2 THEN Return(Zero)
    ELSE IF polyfit_raises(values, nanfit)
    THEN Raise("SVD did not converge in Linear Least Squares")
    ELSE Return(polyfit(values).slope)

calculate_trend(values, nanfit) ==
    LET r == calculate_trend_try(values, nanfit)
    IN  IF r.raised THEN Return(Zero) ELSE r

----------------------------------------------------------------------------
(* detect_anomalies: a z-score is kept as its sign and its square, so that *)
(* the rolling standard deviation needs no square root.                    *)

\* variant: the window is half the series
Window_half(n) == MinOf(12, n \div 2)

Window(n) == MinOf(12, n \div 3)

\* ts.rolling(window).mean() at position i (1-based); NaN until the window is full
rolling_mean(data, w, i) ==
    IF i < w THEN NaN ELSE Mean(SubSeq(data, i - w + 1, i))

\* ts.rolling(window).std() ** 2: the sample variance (ddof = 1), NaN for w = 1
rolling_var(data, w, i) ==
    IF i < w \/ w < 2 THEN NaN
    ELSE LET win == SubSeq(data, i - w + 1, i)
         IN  Div(SumSeq([j \in 1..w |-> Sq(Sub(win[j], Mean(win)))]), Whole(w - 1))

NoZ == [defined |-> FALSE, sign |-> 0, sq |-> Zero]

\* variant: the deviation is taken as rolling_mean - ts
z_score_reversed(data, w, i) ==
    LET dev == Sub(rolling_mean(data, w, i), data[i])
        var == rolling_var(data, w, i)
    IN  IF IsNaN(dev) \/ IsNaN(var) \/ ~Gt(var, Zero) THEN NoZ
        ELSE [defined |-> TRUE,
              sign    |-> IF dev.n > 0 THEN 1 ELSE IF dev.n < 0 THEN 0 - 1 ELSE 0,
              sq      |-> Div(Sq(dev), var)]

\* (ts - rolling_mean) / rolling_std; 0 / 0 and anything with NaN is NaN
z_score(data, w, i) ==
    LET dev == Sub(data[i], rolling_mean(data, w, i))
        var == rolling_var(data, w, i)
    IN  IF IsNaN(dev) \/ IsNaN(var) \/ ~Gt(var, Zero) THEN NoZ
        ELSE [defined |-> TRUE,
              sign    |-> IF dev.n > 0 THEN 1 ELSE IF dev.n < 0 THEN 0 - 1 ELSE 0,
              sq      |-> Div(Sq(dev), var)]

\* variant: a z-score equal to the threshold counts as well
exceeds_inclusive(z, threshold) ==
    /\ z.defined
    /\ ~IsNaN(threshold)
    /\ (Lt(threshold, Zero) \/ Ge(z.sq, Sq(threshold)))

\* not math.isnan(z) and abs(z) > threshold
exceeds(z, threshold) ==
    /\ z.defined
    /\ ~IsNaN(threshold)
    /\ (Lt(threshold, Zero) \/ Gt(z.sq, Sq(threshold)))

RECURSIVE SelectIdx(_, _, _)
\* the positions lo..hi whose flag is set, in increasing order
SelectIdx(lo, hi, flags) ==
    IF lo > hi THEN <<>>
    ELSE IF lo = hi THEN (IF flags[lo] THEN <<lo>> ELSE <<>>)
    ELSE SelectIdx(lo, (lo + hi) \div 2, flags)
             \o SelectIdx((lo + hi) \div 2 + 1, hi, flags)

detect_anomalies_try(data, threshold) ==
    IF Len(data) < 3
    THEN Return([error |-> "Insufficient data for anomaly detection"])
    ELSE
      LET n == Len(data)
          w == Window(n)
          z(i) == z_score(data, w, i)
          flagged == SelectIdx(1, n, [i \in 1..n |-> exceeds(z(i), threshold)])
      IN  Return([anomalies |->
                      [k \in 1..Len(flagged) |->
                          [index   |-> flagged[k] - 1,
                           value   |-> data[flagged[k]],
                           z_score |-> z(flagged[k]),
                           type    |-> IF z(flagged[k]).sign > 0 THEN "high" ELSE "low"]],
                  anomaly_indices |-> [k \in 1..Len(flagged) |-> flagged[k] - 1],
                  anomaly_rate    |-> Rat(Len(flagged), n),
                  threshold       |-> threshold,
                  z_scores        |-> [i \in 1..n |-> z(i)]])

detect_anomalies(data, threshold) == ErrorDict(detect_anomalies_try(data, threshold))

----------------------------------------------------------------------------
(* detect_change_points                                                    *)

\* pandas reductions skip NaN: np.mean(ts), np.std(ts) ** 2 (ddof = 0)
NanMean(s) == IF DropNaN(s) = <<>> THEN NaN ELSE Mean(DropNaN(s))

NanPopVar(s) == IF DropNaN(s) = <<>> THEN NaN ELSE PopVar(DropNaN(s))

\* np.cumsum on a pandas Series: a NaN stays NaN and adds nothing to the sum
CumSum(s, acc) ==
    [i \in 1..Len(s) |->
        IF IsNaN(s[i]) THEN NaN
        ELSE Add(acc, SumSeq(DropNaN(SubSeq(s, 1, i))))]

\* abs(cumulative_sum[i]) > threshold * np.std(deviation)
is_candidate(cs, threshold, var) ==
    /\ ~IsNaN(cs) /\ ~IsNaN(var) /\ ~IsNaN(threshold)
    /\ (Lt(threshold, Zero) \/ Gt(Sq(cs), Mul(Sq(threshold), var)))

\* variant: the last of the largest candidates of the group represents it
max_cp_last(cps, lo, hi) ==
    cps[CHOOSE i \in lo..hi :
            /\ \A j \in lo..hi :
                   ~Gt(AbsR(cps[j].cumulative_sum), AbsR(cps[i].cumulative_sum))
            /\ \A j \in (i + 1)..hi :
                   Lt(AbsR(cps[j].cumulative_sum), AbsR(cps[i].cumulative_sum))]

\* variant: the first candidate of the group represents it
max_cp_first(cps, lo, hi) == cps[lo]

\* max(group, key=lambda x: abs(x['cumulative_sum'])) over the group
\* cps[lo..hi]: the first entry that no other entry exceeds
max_cp(cps, lo, hi) ==
    cps[CHOOSE i \in lo..hi :
            /\ \A j \in lo..hi :
                   ~Gt(AbsR(cps[j].cumulative_sum), AbsR(cps[i].cumulative_sum))
            /\ \A j \in lo..(i - 1) :
                   Lt(AbsR(cps[j].cumulative_sum), AbsR(cps[i].cumulative_sum))]

GroupGap == 5

\* variant: every candidate is a group of its own
group_change_points_apart(cps, k, first) ==
    [i \in 1..(Len(cps) - first + 1) |-> cps[first + i - 1]]

RECURSIVE group_change_points(_, _, _)
\* the loop over change_points[1:] at entry k, the current group being
\* cps[first..k-1], and the closing of the last group
group_change_points(cps, k, first) ==
    IF k > Len(cps)
    THEN <<max_cp(cps, first, Len(cps))>>
    ELSE IF cps[k].index - cps[k - 1].index < GroupGap
    THEN group_change_points(cps, k + 1, first)
    ELSE <<max_cp(cps, first, k - 1)>> \o group_change_points(cps, k + 1, k)

\* deviation = ts - mean
Deviation(data) == [i \in 1..Len(data) |-> Sub(data[i], NanMean(data))]

\* variant: the scan for candidates starts at position 0
raw_change_points_from0(data, threshold) ==
    LET n == Len(data)
        cumulative_sum == CumSum(Deviation(data), Zero)
        var == NanPopVar(Deviation(data))
        raw == SelectIdx(1, n,
                   [i \in 1..n |-> is_candidate(cumulative_sum[i], threshold, var)])
    IN  [k \in 1..Len(raw) |->
            [index          |-> raw[k] - 1,
             value          |-> data[raw[k]],
             cumulative_sum |-> cumulative_sum[raw[k]]]]

\* the list change_points after the loop `for i in range(1, len(cumulative_sum))`
raw_change_points(data, threshold) ==
    LET n == Len(data)
        cumulative_sum == CumSum(Deviation(data), Zero)
        var == NanPopVar(Deviation(data))
        raw == SelectIdx(2, n,
                   [i \in 1..n |-> is_candidate(cumulative_sum[i], threshold, var)])
    IN  [k \in 1..Len(raw) |->
            [index          |-> raw[k] - 1,
             value          |-> data[raw[k]],
             cumulative_sum |-> cumulative_sum[raw[k]]]]

detect_change_points_try(data, threshold) ==
    IF Len(data) < 5
    THEN Return([error |-> "Insufficient data for change point detection"])
    ELSE
      LET change_points == raw_change_points(data, threshold)
      IN  Return([change_points  |-> IF change_points = <<>> THEN <<>>
                                     ELSE group_change_points(change_points, 2, 1),
                  cumulative_sum |-> CumSum(Deviation(data), Zero),
                  threshold      |-> threshold])

detect_change_points(data, threshold) ==
    ErrorDict(detect_change_points_try(data, threshold))

----------------------------------------------------------------------------
(* detect_seasonality and decompose_time_series.  seasonal_decompose is    *)
(* statsmodels code: for each period it either raises or yields components, *)
(* of which the model keeps np.var(seasonal) and np.var(resid.dropna()).   *)

PeriodsToTry == <<12, 4>>

MinSeasonLen == 24

VarValues == {Zero, Whole(1), Whole(2)}

DecompOutcomes ==
    {[raises |-> TRUE, sv |-> Zero, rv |-> Zero]}
    \cup {[raises |-> FALSE, sv |-> a, rv |-> b] : a \in VarValues, b \in VarValues}

\* no decomposition is made
NoDecomp == [p \in {4, 12} |-> [raises |-> TRUE, sv |-> Zero, rv |-> Zero]]

\* len(decomposition.resid.dropna()): the centred moving average of window
\* `period` leaves period // 2 positions undefined at each end
ResidLen(n, period) == n - 2 * (period \div 2)

SignificantStrength == Rat(6, 10)

RECURSIVE try_periods(_, _, _, _)
\* the loop `for p in periods_to_try`, from best = [period, score]
try_periods(ps, n, dec, b) ==
    IF ps = <<>> THEN b
    ELSE LET p == ps[1]
             d == dec[p]
             \* residual_var / seasonal_var on numpy floats: x / 0 is inf
             score == IF d.sv = Zero THEN PosInf ELSE Div(d.rv, d.sv)
             better == score # PosInf /\ (b.score = PosInf \/ Lt(score, b.score))
         IN  try_periods(Tail(ps), n, dec,
                 IF n >= 2 * p /\ ~d.raises /\ ResidLen(n, p) > 0
                    /\ Gt(d.rv, Zero) /\ better
                 THEN [period |-> p, score |-> score]
                 ELSE b)

\* period = 0 stands for period=None
detect_seasonality_try(data, period, dec) ==
    IF Len(data) < MinSeasonLen
    THEN Return([error |-> "Insufficient data for seasonality analysis"])
    ELSE
      LET n == Len(data)
          used == IF period = 0
                  THEN try_periods(PeriodsToTry, n, dec,
                                   [period |-> 12, score |-> PosInf]).period
                  ELSE period
          d == dec[used]
          seasonal_strength ==
              IF ResidLen(n, used) > 0 /\ Gt(d.rv, Zero)
              THEN Div(d.sv, Add(d.sv, d.rv))
              ELSE Zero
      IN  IF d.raises
          THEN Raise("seasonal_decompose failed")
          ELSE Return([period                  |-> used,
                       seasonal_strength       |-> seasonal_strength,
                       significant_seasonality |->
                           Gt(seasonal_strength, SignificantStrength)])

detect_seasonality(data, period, dec) ==
    ErrorDict(detect_seasonality_try(data, period, dec))

decompose_time_series_try(data, period, model, dec) ==
    IF Len(data) < MinSeasonLen
    THEN Return([error |-> "Insufficient data for time series decomposition"])
    ELSE LET used == IF period = 0 THEN 12 ELSE period
         IN  IF dec[used].raises
             THEN Raise("seasonal_decompose failed")
             ELSE Return([period |-> used, model |-> model])

decompose_time_series(data, period, model, dec) ==
    ErrorDict(decompose_time_series_try(data, period, model, dec))

----------------------------------------------------------------------------
(* evaluate_forecast                                                       *)

\* variant: a zero actual value contributes an error of 0
ape_patched(a, p) ==
    IF a = Zero THEN Zero
    ELSE AbsR(Div(Sub(a, p), a))

\* np.abs((actual - predicted) / actual) on arrays: x / 0 is inf, 0 / 0 is nan
ape(a, p) ==
    IF a = Zero THEN (IF p = Zero THEN NaN ELSE PosInf)
    ELSE AbsR(Div(Sub(a, p), a))

\* variant: the mean is not scaled to percent
mape_of_fraction(apes) ==
    IF HasNaN(apes) THEN NaN
    ELSE IF \E i \in 1..Len(apes) : apes[i] = PosInf THEN PosInf
    ELSE Mean(apes)

\* np.mean(...) * 100: nan if any term is nan, else inf if any term is inf
mape_of(apes) ==
    IF HasNaN(apes) THEN NaN
    ELSE IF \E i \in 1..Len(apes) : apes[i] = PosInf THEN PosInf
    ELSE Mul(Mean(apes), Whole(100))

\* the metrics of two non-empty sequences of equal length; the sklearn
\* metrics raise ValueError on an input holding NaN.  rmse is kept as its
\* square.
evaluate_forecast_metrics(actual, predicted) ==
    IF HasNaN(actual) \/ HasNaN(predicted)
    THEN Raise("Input contains NaN.")
    ELSE
      LET n == Len(actual)
          err == [i \in 1..n |-> Sub(actual[i], predicted[i])]
          mse == Mean([i \in 1..n |-> Sq(err[i])])
          ss_res == SumSeq([i \in 1..n |-> Sq(err[i])])
          ss_tot == SumSeq([i \in 1..n |-> Sq(Sub(actual[i], Mean(actual)))])
      IN  Return([mse       |-> mse,
                  rmse_sq   |-> mse,
                  mae       |-> Mean([i \in 1..n |-> AbsR(err[i])]),
                  mape      |-> mape_of([i \in 1..n |-> ape(actual[i], predicted[i])]),
                  r_squared |-> IF Gt(ss_tot, Zero)
                                THEN Sub(Whole(1), Div(ss_res, ss_tot))
                                ELSE Zero])

\* variant: sequences of different lengths are compared over their common
\* prefix
evaluate_forecast_try_prefix(actual, predicted) ==
    LET m == MinOf(Len(actual), Len(predicted))
    IN  IF m = 0
        THEN Return([error |-> "Invalid input for forecast evaluation"])
        ELSE evaluate_forecast_metrics(SubSeq(actual, 1, m), SubSeq(predicted, 1, m))

evaluate_forecast_try(actual, predicted) ==
    IF Len(actual) = 0 \/ Len(predicted) = 0 \/ Len(actual) # Len(predicted)
    THEN Return([error |-> "Invalid input for forecast evaluation"])
    ELSE evaluate_forecast_metrics(actual, predicted)

evaluate_forecast(actual, predicted) ==
    ErrorDict(evaluate_forecast_try(actual, predicted))

----------------------------------------------------------------------------
(* _predict_linear                                                         *)

\* variant: the loop runs over range(1, periods), one step short
_predict_linear_try_short(ts, periods, nanfit) ==
    IF Len(ts) < 2 THEN Return(Rep(Zero, periods))
    ELSE IF polyfit_raises(ts, nanfit)
    THEN Raise("SVD did not converge in Linear Least Squares")
    ELSE LET fit == polyfit(ts)
         IN  Return([i \in 1..(periods - 1) |->
                 Max0(Add(Mul(fit.slope, Whole(Len(ts) + i - 1)), fit.intercept))])

\* variant: the loop runs over range(0, periods + 1), one step more
_predict_linear_try_extra(ts, periods, nanfit) ==
    IF Len(ts) < 2 THEN Return(Rep(Zero, periods))
    ELSE IF polyfit_raises(ts, nanfit)
    THEN Raise("SVD did not converge in Linear Least Squares")
    ELSE LET fit == polyfit(ts)
         IN  Return([i \in 1..(periods + 1) |->
                 Max0(Add(Mul(fit.slope, Whole(Len(ts) + i - 2)), fit.intercept))])

_predict_linear_try(ts, periods, nanfit) ==
    IF Len(ts) < 2 THEN Return(Rep(Zero, periods))
    ELSE IF polyfit_raises(ts, nanfit)
    THEN Raise("SVD did not converge in Linear Least Squares")
    ELSE LET fit == polyfit(ts)
         IN  Return([i \in 1..periods |->
                 Max0(Add(Mul(fit.slope, Whole(Len(ts) + i - 1)), fit.intercept))])

\* except: return [ts.iloc[-1]] * periods if len(ts) > 0 else [0] * periods
_predict_linear(ts, periods, nanfit) ==
    LET r == _predict_linear_try(ts, periods, nanfit)
    IN  IF r.raised
        THEN Return(IF Len(ts) > 0 THEN Rep(ts[Len(ts)], periods)
                                   ELSE Rep(Zero, periods))
        ELSE r

----------------------------------------------------------------------------
(* The model searches of _predict_ets and _predict_arima                   *)

EtsModels == << <<"add", "add">>, <<"add", "mul">>, <<"mul", "add">>, <<"mul", "mul">> >>

ArimaOrders == << <<1, 1, 1>>, <<1, 1, 0>>, <<0, 1, 1>>, <<2, 1, 1>>, <<1, 1, 2>> >>

Methods == {"ets", "arima", "linear", "other"}

\* predict's dispatch: anything but 'arima' and 'linear' runs the ETS search
Strategy(method) == IF method = "arima" THEN "arima"
                    ELSE IF method = "linear" THEN "linear" ELSE "ets"

Candidates(method) == IF Strategy(method) = "arima" THEN ArimaOrders ELSE EtsModels

\* AIC values a converged fit may report, as ranks 1..MaxAic
MaxAic == 2

AicValues == 1..MaxAic

\* best_aic = float('inf')
InfAic == MaxAic + 1

\* best_model = None
NoModel == [model |-> 0, aic |-> InfAic]

\* the model fitted once the search kept nothing:
\* ExponentialSmoothing(ts, trend='add') or ARIMA(ts, order=(1, 1, 1))
SimpleModel(method) == [model |-> Len(Candidates(method)) + 1, aic |-> InfAic]

\* fit.aic of a fit whose likelihood is not a number
NanAic == 0

\* what fit.aic may hold: a finite rank, float('inf') or NaN
FitAics == AicValues \cup {InfAic, NanAic}

\* a < b on floats: False as soon as one side is NaN
AicLess(a, b) == a # NanAic /\ b # NanAic /\ a < b

\* variant: a fit as good as the best so far replaces it
KeepBest_last(b, i, aic) ==
    IF aic # NanAic /\ aic <= b.aic /\ aic # InfAic
    THEN [model |-> i, aic |-> aic] ELSE b

\* if fit.aic < best_aic: best_aic = fit.aic; best_model = fit
KeepBest(b, i, aic) == IF AicLess(aic, b.aic) THEN [model |-> i, aic |-> aic] ELSE b

\* the fits of the candidates tried so far, in the order of the loop; it is
\* kept only by a run that follows one search (tracked)
NoHistory == [tracked |-> FALSE, tried |-> <<>>]

Failed == [converged |-> FALSE, aic |-> NanAic]

Fitted(aic) == [converged |-> TRUE, aic |-> aic]

Record(h, o) == IF h.tracked THEN [h EXCEPT !.tried = Append(@, o)] ELSE h

Forget(h) == [h EXCEPT !.tried = <<>>]

\* Values best_model.forecast(periods) may hold, by step
ForecastShapes == {"falling", "rising", "nan"}

LibValue(shape, k) ==
    IF shape = "nan" THEN NaN
    ELSE IF shape = "falling" THEN Rat(3 - 2 * k, 2)
    ELSE Whole(k - 2)

LibForecast(shape, periods) == [k \in 1..periods |-> LibValue(shape, k)]

\* variant: the predictions are returned as the library gave them
ClampAll_none(preds) == preds

\* predictions = [max(0, pred) for pred in predictions]
ClampAll(preds) == [k \in 1..Len(preds) |-> Max0(preds[k])]

----------------------------------------------------------------------------
(* forecast_with_intervals: a bound is a + s * sqrt(q), s in {-1, 0, 1},   *)
(* kept symbolically so that the square root stays exact.                  *)

Surd(a, s, q) == [a |-> a, s |-> s, q |-> q]

Plain(a) == Surd(a, 0, Zero)

\* a + s * sqrt(q) > 0
SurdPos(v) ==
    /\ ~IsNaN(v.a) /\ ~IsNaN(v.q)
    /\ IF v.s = 0 \/ v.q = Zero THEN Gt(v.a, Zero)
       ELSE IF v.s = 1 THEN Ge(v.a, Zero) \/ Gt(v.q, Sq(v.a))
       ELSE Gt(v.a, Zero) /\ Gt(Sq(v.a), v.q)

\* a + s * sqrt(q) >= 0
SurdNonNeg(v) ==
    /\ ~IsNaN(v.a) /\ ~IsNaN(v.q)
    /\ IF v.s = 0 \/ v.q = Zero THEN Ge(v.a, Zero)
       ELSE IF v.s = 1 THEN Ge(v.a, Zero) \/ Ge(v.q, Sq(v.a))
       ELSE Ge(v.a, Zero) /\ Ge(Sq(v.a), v.q)

\* variant: the bound is raised to 1 instead of 0
SurdMax0_one(v) == IF SurdPos(v) THEN v ELSE Plain(Whole(1))

\* max(0, v)
SurdMax0(v) == IF SurdPos(v) THEN v ELSE Plain(Zero)

Diff(ts) == [i \in 1..(Len(ts) - 1) |-> Sub(ts[i + 1], ts[i])]

ZScore95 == Rat(196, 100)

\* max(0, f * 0.8)
pct_lower(f) == SurdMax0(Plain(Mul(f, Rat(8, 10))))

\* variant: the upper bound is 10% above the forecast
pct_upper_10(f) == Plain(Mul(f, Rat(11, 10)))

\* f * 1.2
pct_upper(f) == Plain(Mul(f, Rat(12, 10)))

\* the statements of forecast_with_intervals that follow the point forecast
intervals(data, periods, alpha, forecast) ==
    LET residuals == DropNaN(Diff(data))
        m         == MinOf(Len(forecast), IF periods < 0 THEN 0 ELSE periods)
        var       == PopVar(residuals)
        q(k)      == Mul(Mul(Sq(ZScore95), var), Whole(k))
        lower_bound ==
            IF Len(residuals) > 0
            THEN [k \in 1..m |-> SurdMax0(Surd(forecast[k], 0 - 1, q(k)))]
            ELSE [k \in 1..Len(forecast) |-> pct_lower(forecast[k])]
        upper_bound ==
            IF Len(residuals) > 0
            THEN [k \in 1..m |-> Surd(forecast[k], 1, q(k))]
            ELSE [k \in 1..Len(forecast) |-> pct_upper(forecast[k])]
    IN  Return([forecast         |-> forecast,
                lower_bound      |-> lower_bound,
                upper_bound      |-> upper_bound,
                confidence_level |-> Mul(Sub(Whole(1), alpha), Whole(100))])

\* the result for a series shorter than 3
short_intervals(periods) ==
    Return([forecast    |-> Rep(Zero, periods),
            lower_bound |-> Rep(Plain(Zero), periods),
            upper_bound |-> Rep(Plain(Zero), periods)])

\* the result built by the except clause around a second point forecast
except_intervals(periods, forecast) ==
    Return([forecast    |-> forecast,
            lower_bound |-> Rep(Plain(Zero), periods),
            upper_bound |-> Rep(Plain(Zero), periods)])

\* alpha = None: the caller leaves the level to the callee
NoneValue == [n |-> 0, d |-> 0 - 1]

IsNumber(x) == x.d >= 0

DefaultAlpha == Rat(5, 100)

\* the try block after the point forecast; 1 - alpha raises TypeError on None
intervals_try(data, periods, alpha, forecast) ==
    IF IsNumber(alpha) THEN intervals(data, periods, alpha, forecast)
    ELSE Raise("unsupported operand type(s) for -: 'int' and 'NoneType'")

----------------------------------------------------------------------------
(* predict and forecast_with_intervals as a process: the fits and the      *)
(* forecast of the library are the steps between the call and its return.  *)

NoOutcome == Return(<<>>)

\* the attributes of the instance after __init__ (its body is `pass`)
NoAttributes == <<>>

\* variant: a method keeps its result on the instance and answers with the
\* result kept by the call before it
Invoke_stale(s, r) ==
    [self |-> <<r>>, outcome |-> IF s = <<>> THEN r ELSE s[1]]

\* a method call on the shared instance: no method body reads or assigns an
\* attribute of self, the result is the one computed from the arguments
Invoke(s, r) == [self |-> s, outcome |-> r]

\* a second caller of the shared instance, before its first call
NoOther == [called |-> FALSE, data |-> <<>>, outcome |-> NoOutcome]

NoCall == [op |-> "none", data |-> <<>>, predicted |-> <<>>, periods |-> 0, method |-> "none",
           alpha |-> DefaultAlpha, nanfit |-> "raise", handler |-> FALSE,
           path |-> "none", dec |-> NoDecomp]

Via(c, path) == [c EXCEPT !.path = path]

RECURSIVE start_predict(_)
RECURSIVE finish_predict(_, _)

\* predict's except clause, then the caller's use of the returned list
finish_predict(c, r) ==
    LET forecast == IF r.raised THEN Rep(Zero, c.periods) ELSE r.val
    IN  IF c.op = "predict"
        THEN [pc |-> "done", call |-> c, outcome |-> Return(forecast)]
        ELSE IF c.handler
        THEN [pc |-> "done", call |-> c,
              outcome |-> except_intervals(c.periods, forecast)]
        ELSE LET i == intervals_try(c.data, c.periods, c.alpha, forecast)
             IN  IF i.raised
                 THEN start_predict([c EXCEPT !.handler = TRUE])
                 ELSE [pc |-> "done", call |-> c, outcome |-> i]

\* variant: only a series shorter than 2 is answered with zeros
start_predict_min2(c) ==
    IF Len(c.data) < 2
    THEN finish_predict(Via(c, "short"), Return(Rep(Zero, c.periods)))
    ELSE IF Strategy(c.method) = "linear"
    THEN finish_predict(Via(c, "linear"),
                        _predict_linear(c.data, c.periods, c.nanfit))
    ELSE [pc |-> "search", call |-> c, outcome |-> NoOutcome]

\* predict up to the dispatch on method
start_predict(c) ==
    IF Len(c.data) < 3
    THEN finish_predict(Via(c, "short"), Return(Rep(Zero, c.periods)))
    ELSE IF Strategy(c.method) = "linear"
    THEN finish_predict(Via(c, "linear"),
                        _predict_linear(c.data, c.periods, c.nanfit))
    ELSE [pc |-> "search", call |-> c, outcome |-> NoOutcome]

\* variant: the except clause answers with zeros
linear_fallback_zeros(c) ==
    finish_predict(Via(c, "fallback"), Return(Rep(Zero, c.periods)))

\* except Exception: return self._predict_linear(ts, periods)
linear_fallback(c) ==
    finish_predict(Via(c, "fallback"), _predict_linear(c.data, c.periods, c.nanfit))

predict_call(data, periods, method, nanfit) ==
    [op |-> "predict", data |-> data, predicted |-> <<>>, periods |-> periods,
     method |-> method,
     alpha |-> DefaultAlpha, nanfit |-> nanfit, handler |-> FALSE, path |-> "none",
     dec |-> NoDecomp]

forecast_with_intervals_call(data, periods, alpha, method, nanfit) ==
    [op |-> "forecast_with_intervals", data |-> data, predicted |-> <<>>,
     periods |-> periods, method |-> method, alpha |-> alpha, nanfit |-> nanfit, handler |-> FALSE,
     path |-> "none", dec |-> NoDecomp]

forecast_with_intervals_start(c) ==
    IF Len(c.data) < 3
    THEN [pc |-> "done", call |-> Via(c, "short"),
          outcome |-> short_intervals(c.periods)]
    ELSE start_predict(c)

----------------------------------------------------------------------------
(* Inputs                                                                  *)

MaxLen == 3

MaxPeriods == 2

Values == {Whole(0 - 2), Whole(1)}

ShortSeries == UNION {[1..n -> Values] : n \in 0..MaxLen}

NaNSeries == {<<NaN>>, <<Zero, NaN, Whole(1)>>, <<Whole(1), Zero, NaN>>,
              <<NaN, NaN, NaN>>}

Series == ShortSeries \cup NaNSeries

\* series whose steps are smaller than the slope that counts as a trend
SmallStepSeries == {<<Zero, Zero>>, <<Zero, Whole(1)>>, <<Zero, Whole(1), Whole(1)>>,
                    <<Zero, Rat(1, 200)>>, <<Rat(1, 200), Rat(3, 200)>>, <<Rat(1, 200), Rat(2, 200)>>,
                    <<Rat(1, 2), Rat(101, 200), Rat(102, 200)>>,
                    <<Rat(1, 200), Rat(1, 200), Rat(1, 200)>>}

\* the ten-value zigzag of the trend scenario
ZigzagSeries == <<Whole(100), Whole(105), Whole(95), Whole(110), Whole(90),
                  Whole(115), Whole(85), Whole(120), Whole(80), Whole(125)>>

TrendSeries == Series \cup SmallStepSeries \cup {ZigzagSeries}

Periods == (0 - 1)..MaxPeriods

\* length of the series holding one spike: the rolling window is 12
SpikeLen == 36

\* a constant series with one larger value, at position p (1-based)
SpikeSeriesAt(p) == [i \in 1..SpikeLen |-> IF i = p THEN Whole(10) ELSE Whole(1)]

SpikeSeries == {SpikeSeriesAt(p) : p \in 1..SpikeLen}

\* series of 6 to 16 values whose last value alone differs
OutlierSeries == {Rep(Whole(1), n - 1) \o <<Whole(4)>> : n \in 6..16}

\* series of 17 values: every last window of 5 over three values
TailSeries == {Rep(Whole(1), 12) \o tail :
                   tail \in [1..5 -> {Whole(0 - 2), Whole(1), Whole(4)}]}

\* series long enough for the rolling window to flag a point, and shorter ones
AnomalySeries == Series \cup {Rep(Whole(1), 5) \o <<Whole(0 - 2)>>,
                              Rep(Whole(1), 17) \o <<Whole(0 - 2)>>,
                              <<Whole(1), NaN>> \o Rep(Whole(1), 15) \o <<Whole(4)>>,
                              Rep(Whole(1), 11) \o <<Whole(4)>>}
                        \cup SpikeSeries \cup OutlierSeries \cup TailSeries

ChangeLen == 5

\* shortest series with a step from 0 to 10 at index 10
StepLen == 20

StepSeriesOf(n) == [i \in 1..n |-> IF i <= 10 THEN Zero ELSE Whole(10)]

StepSeries == {StepSeriesOf(n) : n \in {StepLen, StepLen + 5, 2 * StepLen}}

\* a value of 4 taken back at once or one step later, twice in twelve values:
\* the cumulative sum leaves 0 at the value and returns to it
Bumps(first, width, second) ==
    [i \in 1..12 |->
        IF i = first + 1 \/ i = second + 1 THEN Whole(4)
        ELSE IF i = first + 1 + width \/ i = second + 2 THEN Whole(0 - 4)
        ELSE Zero]

\* candidates at 1, 2 and 9; at 1 and 6; at 1 and 5
ClusterSeries == {Bumps(1, 2, 9), Bumps(1, 1, 6), Bumps(1, 1, 5)}

ChangeSeries == Series \cup [1..ChangeLen -> Values]
                       \cup {Rep(Whole(1), 6) \o <<NaN>> \o Rep(Whole(0 - 2), 6)}
                       \cup StepSeries \cup ClusterSeries

SeasonSeries == Series \cup {Rep(Whole(1), MinSeasonLen - 1), Rep(Whole(1), MinSeasonLen)}

PeriodArgs == {0, 4, 12}

Decomps == [{4, 12} -> DecompOutcomes]

\* the decompositions differ only where seasonal_decompose is reached
DecompsOn(data) ==
    IF Len(data) < MinSeasonLen
    THEN {NoDecomp}
    ELSE Decomps

DecompModels == {"additive", "multiplicative"}

\* the hand-computed evaluation scenario
GoldenActual == <<Whole(10), Whole(20), Whole(30)>>

GoldenPredicted == <<Whole(12), Whole(18), Whole(33)>>

\* actual values holding a zero, with and without a zero prediction
ZeroPairs == {<<<<Zero>>, <<Whole(1)>>>>, <<<<Zero>>, <<Zero>>>>,
              <<<<Zero, Whole(1)>>, <<Whole(1), Whole(1)>>>>,
              <<<<Whole(1), Zero>>, <<Whole(1), Zero>>>>,
              <<<<Whole(1), Zero, Zero>>, <<Whole(1), Zero, Whole(0 - 2)>>>>,
              <<<<Zero, Zero>>, <<Whole(1)>>>>}

EvalPairs == (Series \X Series) \cup ZeroPairs
                 \cup {<<GoldenActual, GoldenPredicted>>}

AnomalyThreshold == Whole(2)

\* the default, and the z-score of the last value of 1, 1, 1, 4
AnomalyThresholds == {AnomalyThreshold, Rat(3, 2)}

ChangeThreshold == Whole(1)

\* the default level, a 99% request, and alpha=None
Alphas == {DefaultAlpha, Rat(1, 100), NoneValue}

----------------------------------------------------------------------------
(* The calls                                                               *)

Init ==
    /\ pc = "idle"
    /\ call = NoCall
    /\ idx = 0
    /\ best = NoModel
    /\ outcome = NoOutcome
    /\ self = NoAttributes
    /\ other = NoOther
    /\ fits = NoHistory

\* an operation that returns in one step
Returns(c, r) ==
    LET i == Invoke(self, r)
    IN  /\ pc' = "done"
        /\ call' = c
        /\ outcome' = i.outcome
        /\ self' = i.self
        /\ UNCHANGED <<idx, best, other, fits>>

Enter(next) ==
    /\ pc' = next.pc
    /\ call' = next.call
    /\ outcome' = next.outcome
    /\ idx' = IF next.pc = "search" THEN 1 ELSE 0
    /\ best' = NoModel
    /\ fits' = Forget(fits)
    /\ UNCHANGED <<self, other>>

Leave(next) ==
    /\ pc' = next.pc
    /\ call' = next.call
    /\ outcome' = next.outcome
    /\ idx' = IF next.pc = "search" THEN 1 ELSE idx
    /\ best' = IF next.pc = "search" THEN NoModel ELSE best
    /\ fits' = IF next.pc = "search" THEN Forget(fits) ELSE fits
    /\ UNCHANGED <<self, other>>

CallAnalyzeTrend ==
    /\ pc = "idle"
    /\ \E data \in TrendSeries : \E nanfit \in NanFitsOn(data) :
           Returns([NoCall EXCEPT !.op = "analyze_trend", !.data = data,
                                  !.nanfit = nanfit],
                   analyze_trend(data, nanfit))

CallCalculateTrend ==
    /\ pc = "idle"
    /\ \E data \in TrendSeries : \E nanfit \in NanFitsOn(data) :
           Returns([NoCall EXCEPT !.op = "calculate_trend", !.data = data,
                                  !.nanfit = nanfit],
                   calculate_trend(data, nanfit))

CallDetectSeasonality ==
    /\ pc = "idle"
    /\ \E data \in SeasonSeries, period \in PeriodArgs :
         \E dec \in DecompsOn(data) :
           Returns([NoCall EXCEPT !.op = "detect_seasonality", !.data = data,
                                  !.periods = period, !.dec = dec],
                   detect_seasonality(data, period, dec))

CallDecomposeTimeSeries ==
    /\ pc = "idle"
    /\ \E data \in SeasonSeries, period \in PeriodArgs, model \in DecompModels :
         \E dec \in DecompsOn(data) :
           Returns([NoCall EXCEPT !.op = "decompose_time_series", !.data = data,
                                  !.periods = period, !.method = model, !.dec = dec],
                   decompose_time_series(data, period, model, dec))

CallDetectAnomalies ==
    /\ pc = "idle"
    /\ \E data \in AnomalySeries, threshold \in AnomalyThresholds :
           Returns([NoCall EXCEPT !.op = "detect_anomalies", !.data = data],
                   detect_anomalies(data, threshold))

CallDetectChangePoints ==
    /\ pc = "idle"
    /\ \E data \in ChangeSeries :
           Returns([NoCall EXCEPT !.op = "detect_change_points", !.data = data],
                   detect_change_points(data, ChangeThreshold))

CallEvaluateForecast ==
    /\ pc = "idle"
    /\ \E pair \in EvalPairs :
           Returns([NoCall EXCEPT !.op = "evaluate_forecast", !.data = pair[1],
                                  !.predicted = pair[2]],
                   evaluate_forecast(pair[1], pair[2]))

CallPredict ==
    /\ pc = "idle"
    /\ \E data \in Series, periods \in Periods, method \in Methods :
         \E nanfit \in NanFitsOn(data) :
           Enter(start_predict(predict_call(data, periods, method, nanfit)))

CallForecastWithIntervals ==
    /\ pc = "idle"
    /\ \E data \in Series, periods \in Periods, alpha \in Alphas,
          method \in Methods :
         \E nanfit \in NanFitsOn(data) :
           Enter(forecast_with_intervals_start(
                     forecast_with_intervals_call(data, periods, alpha, method, nanfit)))

\* the series the second caller analyses
OtherSeries == {<<Whole(0 - 2), Whole(1), Whole(1)>>}

\* analyze_trend called on the shared instance by a second caller, at any
\* point of the first caller's call
\* what analyze_trend computes from each of these series
OtherResults == [data \in OtherSeries |-> analyze_trend(data, "raise")]

OtherCallAnalyzeTrend ==
    \E data \in OtherSeries :
        LET i == Invoke(self, OtherResults[data])
        IN  /\ other' = [called |-> TRUE, data |-> data, outcome |-> i.outcome]
            /\ self' = i.self
            /\ UNCHANGED <<pc, call, idx, best, outcome, fits>>

\* variant: the simple model is fitted after every search
AfterFit_refit(b, o) ==
    /\ best' = b
    /\ fits' = Record(fits, o)
    /\ IF idx < Len(Candidates(call.method))
       THEN idx' = idx + 1 /\ pc' = "search"
       ELSE idx' = idx /\ pc' = "simple"
    /\ UNCHANGED <<call, outcome, self, other>>

\* after the last candidate: the simple model if none was kept
AfterFit(b, o) ==
    /\ best' = b
    /\ fits' = Record(fits, o)
    /\ IF idx < Len(Candidates(call.method))
       THEN idx' = idx + 1 /\ pc' = "search"
       ELSE idx' = idx /\ pc' = IF b = NoModel THEN "simple" ELSE "forecast"
    /\ UNCHANGED <<call, outcome, self, other>>

\* variant: a fit that raises ends the search with the linear extrapolation
FitRaises_abort ==
    /\ pc = "search"
    /\ Leave(linear_fallback(call))

\* model.fit() raises: except Exception: continue
FitRaises ==
    /\ pc = "search"
    /\ AfterFit(best, Failed)

FitConverges ==
    /\ pc = "search"
    /\ \E aic \in FitAics : AfterFit(KeepBest(best, idx, aic), Fitted(aic))

SimpleFitConverges ==
    /\ pc = "simple"
    /\ pc' = "forecast"
    /\ best' = SimpleModel(call.method)
    /\ UNCHANGED <<call, idx, outcome, self, other, fits>>

SimpleFitRaises ==
    /\ pc = "simple"
    /\ Leave(linear_fallback(call))

ForecastReturns ==
    /\ pc = "forecast"
    /\ \E shape \in ForecastShapes :
          Leave(finish_predict(
              Via(call, IF best = SimpleModel(call.method) THEN "simple" ELSE "model"),
              Return(ClampAll(LibForecast(shape, call.periods)))))

ForecastRaises ==
    /\ pc = "forecast"
    /\ Leave(linear_fallback(call))

Done ==
    /\ pc = "done"
    /\ pc' = "idle"
    /\ call' = NoCall
    /\ idx' = 0
    /\ best' = NoModel
    /\ outcome' = NoOutcome
    /\ fits' = Forget(fits)
    /\ UNCHANGED <<self, other>>

Next ==
    \/ CallAnalyzeTrend
    \/ CallCalculateTrend
    \/ CallDetectSeasonality
    \/ CallDecomposeTimeSeries
    \/ CallDetectAnomalies
    \/ CallDetectChangePoints
    \/ CallEvaluateForecast
    \/ CallPredict
    \/ CallForecastWithIntervals
    \/ OtherCallAnalyzeTrend
    \/ FitRaises
    \/ FitConverges
    \/ SimpleFitConverges
    \/ SimpleFitRaises
    \/ ForecastReturns
    \/ ForecastRaises
    \/ Done

Spec == Init /\ [][Next]_vars

\* One search followed fit by fit: predict on a series long enough for the
\* model strategies, the outcome of every fit recorded
SearchData == <<Whole(1), Whole(0 - 2), Whole(1)>>

InitSearch ==
    /\ pc = "idle"
    /\ call = NoCall
    /\ idx = 0
    /\ best = NoModel
    /\ outcome = NoOutcome
    /\ self = NoAttributes
    /\ other = NoOther
    /\ fits = [NoHistory EXCEPT !.tracked = TRUE]

CallPredictSearch ==
    /\ pc = "idle"
    /\ \E periods \in Periods, method \in Methods :
           Enter(start_predict(predict_call(SearchData, periods, method, "raise")))

NextSearch ==
    \/ CallPredictSearch
    \/ FitRaises
    \/ FitConverges
    \/ SimpleFitConverges
    \/ SimpleFitRaises
    \/ ForecastReturns
    \/ ForecastRaises
    \/ Done

SearchSpec == InitSearch /\ [][NextSearch]_vars

----------------------------------------------------------------------------
(* Properties                                                              *)

Finished(op) == pc = "done" /\ call.op = op

NonNegative(s) == \A i \in 1..Len(s) : Ge(s[i], Zero)

\* the operations that return a dict, which may carry the key 'error'
DictOps == {"analyze_trend", "detect_seasonality", "detect_anomalies",
            "detect_change_points", "forecast_with_intervals",
            "decompose_time_series", "evaluate_forecast"}

\* the call returned a result carrying an error marker
ErrorMarked == /\ ~outcome.raised
               /\ call.op \in DictOps
               /\ HasErrorKey(outcome.val)

\* C1: for a series of length >= 3 and periods > 0, predict returns a list of
\* exactly `periods` values, whatever the method (ets, arima, linear, an unknown
\* name) and whichever path produced the values (a model of the search, the
\* simple model, the linear fallback).
C1_PredictLength ==
    (Finished("predict") /\ Len(call.data) >= 3 /\ call.periods > 0)
        => (~outcome.raised /\ Len(outcome.val) = call.periods)

\* an unknown method, every fit failing, two periods asked and two returned
C1_Witness ==
    /\ Finished("predict")
    /\ Len(call.data) >= 3
    /\ call.method = "other"
    /\ call.path = "fallback"
    /\ call.periods = 2
    /\ Len(outcome.val) = 2

C3_NoEscape == pc = "done" => ~outcome.raised

\* analyze_trend on a long enough series whose first value is 0: the division
\* fails inside the call and the call returns the error dict
C3_Witness ==
    /\ Finished("analyze_trend")
    /\ Len(call.data) >= 2
    /\ call.data[1] = Zero
    /\ ErrorMarked

\* the minimum length each operation asks of its series
MinLength(op) ==
    CASE op = "analyze_trend" -> 2
      [] op = "detect_anomalies" -> 3
      [] op = "detect_change_points" -> 5
      [] op \in {"detect_seasonality", "decompose_time_series"} -> 24
      [] op \in {"predict", "forecast_with_intervals"} -> 3

LengthCheckedOps == {"analyze_trend", "detect_anomalies", "detect_change_points",
                     "detect_seasonality", "decompose_time_series", "predict",
                     "forecast_with_intervals"}

TooShort == /\ pc = "done"
            /\ call.op \in LengthCheckedOps
            /\ Len(call.data) < MinLength(call.op)

\* C4 as stated: every operation reports a series shorter than its minimum as
\* a structured error result.
C4_Original == TooShort => ErrorMarked

\* C4: a series shorter than the minimum is reported as a structured error by
\* analyze_trend, detect_anomalies, detect_change_points, detect_seasonality
\* and decompose_time_series; predict returns [0] * periods and
\* forecast_with_intervals a dict of all-zero forecast and bounds, neither
\* carrying an error marker.
C4_ShortSeries ==
    TooShort =>
        /\ ~outcome.raised
        /\ IF call.op = "predict"
           THEN outcome.val = Rep(Zero, call.periods)
           ELSE IF call.op = "forecast_with_intervals"
           THEN /\ ~HasErrorKey(outcome.val)
                /\ outcome.val.forecast = Rep(Zero, call.periods)
                /\ outcome.val.lower_bound = Rep(Plain(Zero), call.periods)
                /\ outcome.val.upper_bound = Rep(Plain(Zero), call.periods)
           ELSE ErrorMarked

\* two values and two periods: a forecast of two zeros and no 'error' key
C4_Witness ==
    /\ Finished("forecast_with_intervals")
    /\ Len(call.data) = 2
    /\ call.periods = 2
    /\ outcome.val.forecast = <<Zero, Zero>>
    /\ ~ErrorMarked

NonPositivePeriods == /\ pc = "done"
                      /\ call.op \in {"predict", "forecast_with_intervals"}
                      /\ call.periods <= 0

ModelFreePaths == {"short", "linear", "fallback"}

\* C5 as stated: periods <= 0 surfaces a result carrying an error marker.
C5_Original == NonPositivePeriods => ErrorMarked

\* C5: with periods <= 0 neither operation signals an error: predict returns a
\* plain list and forecast_with_intervals a dict without 'error'; the lists are
\* empty whenever the values do not come from the library's forecast.
C5_NonPositivePeriods ==
    NonPositivePeriods =>
        /\ ~outcome.raised
        /\ ~ErrorMarked
        /\ (call.op = "predict" /\ call.path \in ModelFreePaths)
               => outcome.val = <<>>
        /\ (call.op = "forecast_with_intervals" /\ call.path \in ModelFreePaths)
               => /\ outcome.val.forecast = <<>>
                  /\ outcome.val.lower_bound = <<>>
                  /\ outcome.val.upper_bound = <<>>

\* a negative periods on a long enough series, every fit failing
C5_Witness ==
    /\ Finished("forecast_with_intervals")
    /\ call.periods < 0
    /\ Len(call.data) >= 3
    /\ call.path = "fallback"
    /\ outcome.val.forecast = <<>>

\* the least-squares line of the series, extended and clamped at 0
Extrapolated(data, periods) ==
    LET fit == polyfit(data)
    IN  [k \in 1..periods |->
            Max0(Add(Mul(fit.slope, Whole(Len(data) + k - 1)), fit.intercept))]

\* C6 as stated: a series too short for the statistical model, in particular
\* one of 2 points, yields the linear extrapolation.
C6_Original ==
    (Finished("predict") /\ Len(call.data) = 2 /\ ~HasNaN(call.data))
        => outcome.val = Extrapolated(call.data, call.periods)

\* C6: predict returns [0] * periods for a series shorter than 3 (a 2-point
\* series included); the linear extrapolation (clamped at 0) is what it
\* returns for a series of length >= 3 under method 'linear' or when the model
\* search, the simple model or the forecast fail - the last value repeated if
\* the least-squares fit itself raises.
C6_LinearFallback ==
    Finished("predict") =>
        /\ Len(call.data) < 3 => outcome.val = Rep(Zero, call.periods)
        /\ (Len(call.data) >= 3 /\ call.path \in {"fallback", "linear"})
               => outcome.val =
                      IF polyfit_raises(call.data, call.nanfit)
                      THEN Rep(call.data[Len(call.data)], call.periods)
                      ELSE Extrapolated(call.data, call.periods)

\* the ETS search and the simple model fail on three values: a rising line
C6_Witness ==
    /\ Finished("predict")
    /\ call.method = "ets"
    /\ call.path = "fallback"
    /\ Len(call.data) = 3
    /\ ~HasNaN(call.data)
    /\ call.periods = 2
    /\ Gt(outcome.val[1], Zero)
    /\ Gt(outcome.val[2], outcome.val[1])

\* C7 as stated: on a series shorter than 2 analyze_trend returns a neutral
\* trend (slope 0, r_squared 0, direction stable, percentage_change 0).
C7_Original ==
    (Finished("analyze_trend") /\ Len(call.data) < 2)
        => /\ ~outcome.raised
           /\ ~HasErrorKey(outcome.val)
           /\ outcome.val.slope = Zero
           /\ outcome.val.r_squared = Zero
           /\ outcome.val.direction = "stable"
           /\ outcome.val.percentage_change = Zero

\* C7: on a series shorter than 2 analyze_trend never raises and returns the
\* error dict 'Insufficient data for trend analysis', with no trend fields;
\* the neutral value 0 is what calculate_trend returns for such a series.
C7_ShortTrend ==
    (pc = "done" /\ Len(call.data) < 2)
        => /\ call.op = "analyze_trend"
               => /\ ~outcome.raised
                  /\ outcome.val = [error |-> "Insufficient data for trend analysis"]
           /\ call.op = "calculate_trend"
               => /\ ~outcome.raised
                  /\ outcome.val = Zero

\* a one-element series
C7_Witness ==
    /\ Finished("analyze_trend")
    /\ Len(call.data) = 1
    /\ ErrorMarked

IsConstant(s) == \A i \in 1..Len(s) : s[i] = s[1]

\* C8: for a constant series of length >= 2 with a nonzero constant,
\* analyze_trend reports slope = 0, r_squared = 0 and direction = stable.
C8_ConstantTrend ==
    (/\ Finished("analyze_trend")
     /\ Len(call.data) >= 2
     /\ IsConstant(call.data)
     /\ ~HasNaN(call.data)
     /\ call.data[1] # Zero)
        => /\ ~ErrorMarked
           /\ outcome.val.slope = Zero
           /\ outcome.val.r_squared = Zero
           /\ outcome.val.direction = "stable"

\* three equal values
C8_Witness ==
    /\ Finished("analyze_trend")
    /\ call.data = <<Whole(1), Whole(1), Whole(1)>>
    /\ outcome.val.slope = Zero
    /\ outcome.val.direction = "stable"

StrictlyIncreasing(s) == \A i \in 1..(Len(s) - 1) : Lt(s[i], s[i + 1])

\* C9 as stated: every trend result for a strictly increasing series has
\* slope > 0 and direction = increasing, however small the increments.
C9_Original ==
    (/\ Finished("analyze_trend")
     /\ Len(call.data) >= 2
     /\ StrictlyIncreasing(call.data)
     /\ ~ErrorMarked)
        => /\ Gt(outcome.val.slope, Zero)
           /\ outcome.val.direction = "increasing"

\* C9: for a strictly increasing series of length >= 2 the slope is > 0 and the
\* direction is increasing when slope >= 0.01 and stable when slope < 0.01;
\* when the first value is 0 the call returns the error dict instead (C10).
C9_IncreasingTrend ==
    (/\ Finished("analyze_trend")
     /\ Len(call.data) >= 2
     /\ StrictlyIncreasing(call.data))
        => IF call.data[1] = Zero
           THEN ErrorMarked
           ELSE /\ ~ErrorMarked
                /\ Gt(outcome.val.slope, Zero)
                /\ outcome.val.direction =
                       IF Ge(outcome.val.slope, StableSlope)
                       THEN "increasing" ELSE "stable"

\* increments of 1/200: a positive slope reported as stable
C9_Witness ==
    /\ Finished("analyze_trend")
    /\ Len(call.data) >= 2
    /\ StrictlyIncreasing(call.data)
    /\ ~ErrorMarked
    /\ Gt(outcome.val.slope, Zero)
    /\ outcome.val.direction = "stable"

\* C10: percentage_change = (last - first) / first * 100, and a first value of
\* 0 yields a normal trend result whose percentage_change is 0.
C10_PercentageChange ==
    (Finished("analyze_trend") /\ Len(call.data) >= 2 /\ ~HasNaN(call.data))
        => /\ ~ErrorMarked
           /\ outcome.val.percentage_change =
                  IF call.data[1] = Zero THEN Zero
                  ELSE Mul(Div(Sub(call.data[Len(call.data)], call.data[1]),
                               call.data[1]), Whole(100))

\* C11 as stated: on the zigzag series the least-squares slope lies in
\* 2.27..2.5 and r_squared in [0, 1].
C11_Original ==
    (Finished("analyze_trend") /\ call.data = ZigzagSeries)
        => /\ ~ErrorMarked
           /\ Ge(outcome.val.slope, Rat(227, 100))
           /\ Ge(Rat(25, 10), outcome.val.slope)
           /\ Ge(outcome.val.r_squared, Zero)
           /\ Ge(Whole(1), outcome.val.r_squared)

\* C11: for series = [100,105,95,110,90,115,85,120,80,125] analyze_trend
\* reports the least-squares slope over x = 0..9, which is 25/33 (about 0.758),
\* with intercept 1090/11, and an r_squared within [0, 1].
C11_ZigzagTrend ==
    (Finished("analyze_trend") /\ call.data = ZigzagSeries)
        => /\ ~ErrorMarked
           /\ outcome.val.slope = Rat(25, 33)
           /\ outcome.val.intercept = Rat(1090, 11)
           /\ Ge(outcome.val.r_squared, Zero)
           /\ Ge(Whole(1), outcome.val.r_squared)

\* the zigzag series analysed: a rising trend with a poor fit
C11_Witness ==
    /\ Finished("analyze_trend")
    /\ call.data = ZigzagSeries
    /\ outcome.val.direction = "increasing"
    /\ Gt(outcome.val.r_squared, Zero)
    /\ Lt(outcome.val.r_squared, Rat(1, 10))

EvaluateInvalid == \/ Len(call.data) = 0
                   \/ Len(call.predicted) = 0
                   \/ Len(call.data) # Len(call.predicted)

MetricKeys == {"mse", "rmse_sq", "mae", "mape", "r_squared"}

HasZero(s) == \E i \in 1..Len(s) : s[i] = Zero

\* C14: when an actual value is 0, evaluate_forecast never returns a finite
\* mape: the result either carries the error marker or reports mape as inf
\* or nan, which tells it from a successful evaluation.
C14_ZeroActual ==
    (Finished("evaluate_forecast") /\ HasZero(call.data))
        => /\ ~outcome.raised
           /\ \/ ErrorMarked
              \/ outcome.val.mape \in {PosInf, NaN}

\* an actual 0 against a nonzero prediction: the metrics with mape = inf
C14_Witness ==
    /\ Finished("evaluate_forecast")
    /\ HasZero(call.data)
    /\ ~ErrorMarked
    /\ outcome.val.mape = PosInf
    /\ outcome.val.mae = Rat(1, 2)

\* C15: evaluate_forecast([10,20,30],[12,18,33]) returns mse = 17/3, rmse^2 =
\* mse, mae = 7/3, mape = 40/3 percent and r_squared = 1 - 17/200; every
\* evaluation has rmse^2 = mse, and r_squared = 0 when all actual values are
\* equal.
C15_GoldenMetrics ==
    (Finished("evaluate_forecast") /\ ~ErrorMarked)
        => /\ outcome.val.rmse_sq = outcome.val.mse
           /\ IsConstant(call.data) => outcome.val.r_squared = Zero
           /\ (call.data = GoldenActual /\ call.predicted = GoldenPredicted)
                  => /\ outcome.val.mse = Rat(17, 3)
                     /\ outcome.val.mae = Rat(7, 3)
                     /\ outcome.val.mape = Rat(40, 3)
                     /\ outcome.val.r_squared = Rat(183, 200)

\* the scenario evaluated
C15_Witness ==
    /\ Finished("evaluate_forecast")
    /\ call.data = GoldenActual
    /\ call.predicted = GoldenPredicted
    /\ outcome.val.mse = Rat(17, 3)

\* the series is constant except for one larger value, at position p (1-based)
SpikeAt(s, p) ==
    /\ p \in 1..Len(s)
    /\ \A i \in 1..Len(s) : \A j \in 1..Len(s) :
           (i # p /\ j # p) => (s[i] = s[j] /\ Lt(s[i], s[p]))

OneSpike == /\ Finished("detect_anomalies")
            /\ Len(call.data) >= 36
            /\ outcome.val.threshold = AnomalyThreshold
            /\ \E p \in 1..Len(call.data) : SpikeAt(call.data, p)

\* C16 as stated: wherever the spike is placed, exactly its index is flagged,
\* as high.
C16_Original ==
    OneSpike =>
        \A p \in 1..Len(call.data) : SpikeAt(call.data, p) =>
            /\ ~ErrorMarked
            /\ outcome.val.anomaly_indices = <<p - 1>>
            /\ outcome.val.anomalies[1].type = "high"

\* C16: for a series of length >= 36 that is constant except for one larger
\* value, detect_anomalies with threshold 2.0 flags exactly the spike's index,
\* as high, when the spike is at index 11 or later; a spike among the first
\* 11 values falls where the rolling window of 12 is not yet full and nothing
\* is flagged.
C16_SpikeFlagged ==
    OneSpike =>
        \A p \in 1..Len(call.data) : SpikeAt(call.data, p) =>
            /\ ~ErrorMarked
            /\ IF p - 1 >= 11
               THEN /\ outcome.val.anomaly_indices = <<p - 1>>
                    /\ Len(outcome.val.anomalies) = 1
                    /\ outcome.val.anomalies[1].index = p - 1
                    /\ outcome.val.anomalies[1].type = "high"
               ELSE /\ outcome.val.anomaly_indices = <<>>
                    /\ outcome.val.anomalies = <<>>

\* a spike in the middle of the series, flagged with z^2 = 121/12
C16_Witness ==
    /\ OneSpike
    /\ SpikeAt(call.data, 20)
    /\ outcome.val.anomaly_indices = <<19>>
    /\ outcome.val.anomalies[1].z_score.sq = Rat(121, 12)

\* 0 up to index 9 and 10 from index 10 on
IsStep(s) == /\ Len(s) >= 20
             /\ \A i \in 1..Len(s) : s[i] = IF i <= 10 THEN Zero ELSE Whole(10)

\* C17: for a series of length >= 20 that is 0 up to index 9 and 10 from index
\* 10 on, detect_change_points with threshold 1.0 returns exactly one
\* representative change point, at an index adjacent to the step (9 or 10).
C17_StepChangePoint ==
    (Finished("detect_change_points") /\ IsStep(call.data))
        => /\ ~ErrorMarked
           /\ Len(outcome.val.change_points) = 1
           /\ outcome.val.change_points[1].index \in {9, 10}

\* the step series of 25 values: the representative is the last 0, where the
\* cumulative sum is lowest
C17_Witness ==
    /\ Finished("detect_change_points")
    /\ IsStep(call.data)
    /\ Len(call.data) = 25
    /\ outcome.val.change_points[1].index = 9
    /\ outcome.val.change_points[1].cumulative_sum = Whole(0 - 60)

\* the two-sided standard normal quantile z(1 - alpha/2) of the levels used
ZQuantile(alpha) == IF alpha = Rat(1, 100) THEN Rat(2576, 1000) ELSE Rat(196, 100)

\* the normal path of forecast_with_intervals with a residual estimate
ResidualPath == /\ Finished("forecast_with_intervals")
                /\ Len(call.data) >= 3
                /\ IsNumber(call.alpha)
                /\ ~call.handler
                /\ DropNaN(Diff(call.data)) # <<>>

\* C18: the interval is built with z = 1.96 for alpha = 0.05 and with the z
\* derived from alpha for another alpha, so that the bounds correspond to the
\* reported confidence_level = (1 - alpha) * 100.
C18_AlphaInterval ==
    ResidualPath =>
        /\ outcome.val.confidence_level =
               Mul(Sub(Whole(1), call.alpha), Whole(100))
        /\ \A k \in 1..Len(outcome.val.upper_bound) :
               outcome.val.upper_bound[k] =
                   Surd(outcome.val.forecast[k], 1,
                        Mul(Mul(Sq(ZQuantile(call.alpha)),
                                PopVar(DropNaN(Diff(call.data)))),
                            Whole(k)))

\* forecast_with_intervals returned from its try block
NormalPath == /\ Finished("forecast_with_intervals")
              /\ Len(call.data) >= 3
              /\ IsNumber(call.alpha)
              /\ ~call.handler

\* C19: for a series of length >= 3, forecast_with_intervals falls back to
\* lower = max(0, 0.8 * f), upper = 1.2 * f for each point forecast f when the
\* first differences of the series leave no residual (all of them NaN), and
\* otherwise uses f -/+ 1.96 * std(first differences) * sqrt(k) at step k, the
\* lower bound clamped at 0.
C19_IntervalBounds ==
    NormalPath =>
        LET f   == outcome.val.forecast
            lo  == outcome.val.lower_bound
            up  == outcome.val.upper_bound
            res == DropNaN(Diff(call.data))
            q(k) == Mul(Mul(Sq(Rat(196, 100)), PopVar(res)), Whole(k))
        IN  /\ Len(lo) = Len(f)
            /\ Len(up) = Len(f)
            /\ \A k \in 1..Len(f) :
                   IF res = <<>>
                   THEN /\ lo[k] = SurdMax0(Plain(Mul(f[k], Rat(8, 10))))
                        /\ up[k] = Plain(Mul(f[k], Rat(12, 10)))
                   ELSE /\ lo[k] = SurdMax0(Surd(f[k], 0 - 1, q(k)))
                        /\ up[k] = Surd(f[k], 1, q(k))

\* a series whose differences are all NaN and a positive point forecast
C19_Witness ==
    /\ NormalPath
    /\ DropNaN(Diff(call.data)) = <<>>
    /\ Len(outcome.val.forecast) >= 1
    /\ Gt(outcome.val.forecast[1], Zero)
    /\ outcome.val.upper_bound[1] = Plain(Mul(outcome.val.forecast[1], Rat(12, 10)))
    /\ outcome.val.lower_bound[1] = Plain(Mul(outcome.val.forecast[1], Rat(8, 10)))

\* the variables of the caller whose predict is in progress
caller == <<pc, call, idx, best, outcome>>

\* the exponential-smoothing strategy is at work
EtsActive == /\ pc \in {"search", "simple", "forecast"}
             /\ Strategy(call.method) = "ets"

ArimaActive == /\ pc \in {"search", "simple", "forecast"}
               /\ Strategy(call.method) = "arima"

\* the candidates tried so far whose fit returned
Converged(h) == {i \in 1..Len(h.tried) : h.tried[i].converged}

\* those of them whose AIC is below infinity
Kept(h) == {i \in Converged(h) : AicLess(h.tried[i].aic, InfAic)}

Searched == /\ pc = "forecast"
            /\ Strategy(call.method) \in {"ets", "arima"}
            /\ fits.tracked

AutoPeriod ==
    /\ pc = "done"
    /\ call.op \in {"detect_seasonality", "decompose_time_series"}
    /\ call.periods = 0
    /\ Len(call.data) >= MinSeasonLen

\* candidate p yields a score: it is not skipped, its decomposition succeeds
\* and leaves residuals, and the quotient of the variances exists
Computable(p) ==
    /\ Len(call.data) >= 2 * p
    /\ ~call.dec[p].raises
    /\ ResidLen(Len(call.data), p) > 0
    /\ call.dec[p].sv # Zero

\* residual variance / seasonal variance of candidate p
Score(p) == Div(call.dec[p].rv, call.dec[p].sv)

\* the lowest-score candidate, 12 on a tie or when none has a score
LowestScore ==
    IF Computable(4) /\ (~Computable(12) \/ Lt(Score(4), Score(12)))
    THEN 4 ELSE 12

\* C23: with no period given, detect_seasonality and decompose_time_series
\* score the candidates 12 and 4 by residual variance / seasonal variance and
\* decompose with the candidate of lowest score, 12 on a tie or when no
\* candidate has a computable score.
C23_PeriodChoice ==
    AutoPeriod =>
        IF call.dec[LowestScore].raises
        THEN HasErrorKey(outcome.val)
        ELSE /\ ~HasErrorKey(outcome.val)
             /\ outcome.val.period = LowestScore

\* detect_seasonality accepted the series and decomposed it
Decomposed ==
    /\ Finished("detect_seasonality")
    /\ Len(call.data) >= MinSeasonLen
    /\ ~HasErrorKey(outcome.val)

Scanned == /\ Finished("detect_anomalies")
           /\ Len(call.data) >= 3

\* the trailing window ending at position i (1-based) of the scanned series
TrailingWindow(i) ==
    LET w == MinOf(12, Len(call.data) \div 3)
    IN  IF i < w THEN <<>> ELSE SubSeq(call.data, i - w + 1, i)

\* the sum of the squared deviations of a window from its mean
SquaredDeviations(win) ==
    SumSeq([j \in 1..Len(win) |-> Sq(Sub(win[j], Mean(win)))])

\* position i has a z-score: its window is full, holds numbers only and has
\* a positive sample standard deviation
ZDefined(i) ==
    LET win == TrailingWindow(i)
    IN  /\ Len(win) >= 2
        /\ ~HasNaN(win)
        /\ Gt(SquaredDeviations(win), Zero)

\* |z| > t for a threshold t >= 0, as (w - 1) * dev^2 > t^2 * sum of squares
ZBeyond(i, t) ==
    LET win == TrailingWindow(i)
        dev == Sub(call.data[i], Mean(win))
    IN  Gt(Mul(Whole(Len(win) - 1), Sq(dev)), Mul(Sq(t), SquaredDeviations(win)))

\* C25: detect_anomalies uses a trailing window of min(12, n // 3) values and
\* flags position i exactly when its z-score is defined and |z| > threshold,
\* strictly, as high when the value is above the window mean and low when
\* below; the anomalies are in increasing index order and anomaly_rate is
\* their number over n.
C25_AnomalyFlags ==
    Scanned =>
        LET n == Len(call.data)
            t == outcome.val.threshold
            found == outcome.val.anomaly_indices
            listed == outcome.val.anomalies
        IN  /\ ~ErrorMarked
            /\ \A i \in 1..n :
                   (\E k \in 1..Len(found) : found[k] = i - 1)
                       <=> (ZDefined(i) /\ ZBeyond(i, t))
            /\ \A k \in 1..(Len(found) - 1) : found[k] < found[k + 1]
            /\ Len(listed) = Len(found)
            /\ \A k \in 1..Len(found) :
                   LET i == found[k] + 1
                   IN  /\ listed[k].index = found[k]
                       /\ listed[k].value = call.data[i]
                       /\ listed[k].type =
                              IF Gt(call.data[i], Mean(TrailingWindow(i)))
                              THEN "high" ELSE "low"
            /\ outcome.val.anomaly_rate = Rat(Len(found), n)

\* a series holding a NaN whose last value is flagged as high, the positions
\* whose window holds the NaN or is constant left out
C25_Witness ==
    /\ Scanned
    /\ HasNaN(call.data)
    /\ Len(call.data) = 18
    /\ outcome.val.anomaly_indices = <<17>>
    /\ outcome.val.anomalies[1].type = "high"
    /\ outcome.val.anomaly_rate = Rat(1, 18)

\* detect_change_points accepted the series
Grouped == /\ Finished("detect_change_points")
           /\ Len(call.data) >= 5

\* the raw candidates of the finished call
RawOf == raw_change_points(call.data, outcome.val.threshold)

\* C26: position i is a raw candidate exactly when i >= 1 and
\* |cumulative_sum[i]| > threshold * std(deviations), the deviations taken
\* from the global mean; position 0 is never one, and the returned
\* cumulative_sum has the full length n.
C26_RawCandidates ==
    Grouped =>
        LET n == Len(call.data)
            t == outcome.val.threshold
            cs == outcome.val.cumulative_sum
            raw == RawOf
            found == {raw[k].index : k \in 1..Len(raw)}
            mean == Div(SumSeq(call.data), Whole(n))
            var == NanPopVar(Deviation(call.data))
        IN  /\ ~ErrorMarked
            /\ Len(cs) = n
            /\ ~HasNaN(call.data) =>
                   /\ \A i \in 1..n :
                          cs[i] = Sub(SumSeq(SubSeq(call.data, 1, i)), Mul(Whole(i), mean))
                   /\ var = Div(SumSeq([i \in 1..n |-> Sq(Sub(call.data[i], mean))]),
                                Whole(n))
            /\ \A i \in 0..(n - 1) :
                   i \in found <=> /\ i >= 1
                                   /\ ~IsNaN(cs[i + 1]) /\ ~IsNaN(var)
                                   /\ Gt(Sq(cs[i + 1]), Mul(Sq(t), var))
            /\ \A k \in 1..Len(raw) :
                   /\ raw[k].cumulative_sum = cs[raw[k].index + 1]
                   /\ raw[k].value = call.data[raw[k].index + 1]
                   /\ k > 1 => raw[k - 1].index < raw[k].index

\* position 0 lies further from the mean than the standard deviation and is
\* no candidate, position 1 is
C26_Witness ==
    /\ Grouped
    /\ call.data = <<Whole(0 - 2), Whole(1), Whole(1), Whole(1), Whole(1)>>
    /\ Len(RawOf) > 0
    /\ RawOf[1].index = 1
    /\ Gt(Sq(outcome.val.cumulative_sum[1]), NanPopVar(Deviation(call.data)))

\* the positions in the candidates raw where a cluster starts
ClusterStarts(raw) ==
    {k \in 1..Len(raw) : k = 1 \/ raw[k].index - raw[k - 1].index >= 5}

\* the last position of the cluster starting at b
ClusterEnd(raw, starts, b) ==
    CHOOSE e \in b..Len(raw) :
        /\ \A k \in (b + 1)..e : k \notin starts
        /\ e = Len(raw) \/ (e + 1) \in starts

\* C27: the raw candidates fall into clusters of consecutive candidates less
\* than 5 apart from their predecessor; every candidate is in exactly one
\* cluster, and every cluster, the last one included, contributes exactly one
\* representative, in cluster order: its candidate of largest absolute
\* cumulative sum, the earliest such on a tie.
C27_Clusters ==
    Grouped =>
        LET cps == outcome.val.change_points
            raw == RawOf
            starts == ClusterStarts(raw)
            end == [b \in starts |-> ClusterEnd(raw, starts, b)]
            size == [k \in 1..Len(raw) |-> AbsR(raw[k].cumulative_sum)]
        IN  /\ Len(cps) = Cardinality(starts)
            /\ \A k \in 1..Len(raw) :
                   Cardinality({b \in starts : b <= k /\ k <= end[b]}) = 1
            /\ \A b \in starts :
                   LET m == Cardinality({c \in starts : c <= b})
                   IN  \E i \in b..end[b] :
                          /\ cps[m] = raw[i]
                          /\ \A j \in b..end[b] : Ge(size[i], size[j])
                          /\ \A j \in b..(i - 1) : Lt(size[j], size[i])

\* two clusters, the first holding two candidates of the same cumulative sum
C27_Witness ==
    /\ Grouped
    /\ call.data = Bumps(1, 2, 9)
    /\ Len(outcome.val.change_points) = 2
    /\ outcome.val.change_points[1].index = 1
    /\ outcome.val.change_points[2].index = 9

\* C29: the change_points list is strictly increasing in index, each entry is
\* one of the raw candidates, and any two entries are at least 5 index
\* positions apart.
C29_Representatives ==
    Grouped =>
        LET cps == outcome.val.change_points
            raw == RawOf
        IN  /\ \A k \in 1..Len(cps) : \E j \in 1..Len(raw) : cps[k] = raw[j]
            /\ \A k \in 1..(Len(cps) - 1) : cps[k].index < cps[k + 1].index
            /\ \A k \in 1..Len(cps) : \A l \in (k + 1)..Len(cps) :
                   cps[l].index - cps[k].index >= 5

\* two representatives exactly 5 positions apart
C29_Witness ==
    /\ Grouped
    /\ Len(RawOf) = 2
    /\ Len(outcome.val.change_points) = 2
    /\ outcome.val.change_points[1].index = 1
    /\ outcome.val.change_points[2].index = 6

\* C28 as stated: every series shorter than 18 gets an empty anomaly list at
\* the default threshold.
C28_Original ==
    (Finished("detect_anomalies") /\ Len(call.data) < 18) =>
        /\ ~ErrorMarked
        /\ outcome.val.threshold = AnomalyThreshold => outcome.val.anomalies = <<>>

\* C28: for every series of length 3 <= n < 18, detect_anomalies with the
\* default threshold 2.0 returns an empty anomaly list: with a window of
\* w = min(12, n // 3) <= 5 values, z^2 never exceeds (w - 1)^2 / w < 4, and
\* a window of 1 leaves every z undefined.
C28_NothingFlagged ==
    (Scanned /\ Len(call.data) < 18 /\ outcome.val.threshold = AnomalyThreshold) =>
        LET n == Len(call.data)
            w == MinOf(12, n \div 3)
        IN  /\ outcome.val.anomalies = <<>>
            /\ outcome.val.anomaly_indices = <<>>
            /\ outcome.val.anomaly_rate = Zero
            /\ \A i \in 1..n :
                   LET z == outcome.val.z_scores[i]
                   IN  IF w < 2 THEN ~z.defined
                       ELSE z.defined =>
                                /\ Ge(Rat((w - 1) * (w - 1), w), z.sq)
                                /\ Lt(z.sq, Sq(AnomalyThreshold))

\* 17 values, the last one alone in its window of 5: z^2 = 16/5, not flagged
C28_Witness ==
    /\ Scanned
    /\ Len(call.data) = 17
    /\ outcome.val.threshold = AnomalyThreshold
    /\ outcome.val.z_scores[17].defined
    /\ outcome.val.z_scores[17].sq = Rat(16, 5)
    /\ outcome.val.anomalies = <<>>

\* lo <= f <= up for a point forecast f and two bounds a + s * sqrt(q)
Brackets(lo, f, up) ==
    /\ SurdNonNeg(Surd(Sub(f, lo.a), 0 - lo.s, lo.q))
    /\ SurdNonNeg(Surd(Sub(up.a, f), up.s, up.q))

\* C30 as stated: on every return path the three lists have length periods
\* and lower_bound[k] <= forecast[k] <= upper_bound[k] at every step.
C30_Original ==
    Finished("forecast_with_intervals") =>
        LET f  == outcome.val.forecast
            lo == outcome.val.lower_bound
            up == outcome.val.upper_bound
        IN  /\ Len(f) = call.periods
            /\ Len(lo) = call.periods
            /\ Len(up) = call.periods
            /\ \A k \in 1..Len(f) : Brackets(lo[k], f[k], up[k])

\* C30: every result of forecast_with_intervals has forecast, lower_bound and
\* upper_bound lists of one length, periods (none for periods below 0); for a
\* series without NaN, lower_bound[k] <= forecast[k] <= upper_bound[k] at
\* every step of the short-series and normal paths, while on the exception
\* path both bounds are 0 at every step and the forecast is not below them.
C30_SameLength ==
    Finished("forecast_with_intervals") =>
        LET f  == outcome.val.forecast
            lo == outcome.val.lower_bound
            up == outcome.val.upper_bound
            m  == IF call.periods < 0 THEN 0 ELSE call.periods
        IN  /\ Len(f) = m
            /\ Len(lo) = m
            /\ Len(up) = m
            /\ \A k \in 1..m :
                   /\ call.handler => (lo[k] = Plain(Zero) /\ up[k] = Plain(Zero))
                   /\ ~HasNaN(call.data) =>
                          IF call.handler THEN Ge(f[k], Zero)
                          ELSE Brackets(lo[k], f[k], up[k])

\* the exception path with a positive point forecast above its upper bound
C30_Witness ==
    /\ Finished("forecast_with_intervals")
    /\ call.handler
    /\ call.periods = 2
    /\ ~HasNaN(call.data)
    /\ Gt(outcome.val.forecast[1], Zero)
    /\ outcome.val.upper_bound[1] = Plain(Zero)
    /\ ~Brackets(outcome.val.lower_bound[1], outcome.val.forecast[1],
                 outcome.val.upper_bound[1])

====
